---- MODULE Spec2Model ----
(***************************************************************************)
(* Model of the Generic Metadata API (src/main.py): the /ingest handler,   *)
(* the per-consumer configuration lookup, validate_metadata,               *)
(* validate_field_type and normalize_metadata.                             *)
(*                                                                         *)
(* Python values are records tagged with type(value).__name__ .  A Python  *)
(* dict that is only read by key is a TLA+ function; a dict that the code  *)
(* iterates (.items()) is a sequence of <<key, value>> pairs in insertion  *)
(* order, with distinct keys.  A string built by an f-string is the        *)
(* sequence of the pieces it concatenates; a dotted field path is the      *)
(* sequence <<"address", ".", "zip">>.  None is the empty sequence where   *)
(* the code only tests truthiness (if error:).                             *)
(***************************************************************************)
EXTENDS Integers, Sequences, FiniteSets, TLC

VARIABLES
    configDir,      \* the files under CONFIG_PATH: consumer id -> file content
    pc,             \* position of the running call
    consumer_id,    \* request.consumer_id
    metadata,       \* request.metadata
    submitted,      \* the (consumer_id, metadata) the caller sent
    config,         \* the loaded configuration
    missing,        \* validate_metadata: the list of missing required fields
    idx,            \* validate_metadata: position in field_types.items()
    checked,        \* the fields handed to validate_field_type so far
    error_msg,      \* validate_metadata: the last result of validate_field_type
    normalized,     \* the result of normalize_metadata
    response,       \* what the call returned or raised
    steps,          \* the steps the current request has run, in order
    first,          \* the first finished request and its response
    requests,       \* number of requests received
    field_name,     \* validate_field_type called on its own: arguments ...
    value,
    expected_type,
    result          \* ... and its return value

vars == <<configDir, pc, consumer_id, metadata, submitted, config, missing, idx,
          checked, error_msg, normalized, response, steps, first, requests,
          field_name, value, expected_type, result>>

ingestVars == <<configDir, pc, consumer_id, metadata, submitted, config, missing,
                idx, checked, error_msg, normalized, response, steps, first,
                requests>>

callVars == <<field_name, value, expected_type, result>>

-----------------------------------------------------------------------------
(* Bounds *)

MaxListLen == 2     \* longest list value
MaxDepth == 2       \* deepest nesting of dict values and of object schemas
MaxRequests == 3    \* requests received in one behaviour
MaxRequired == 2    \* longest required_fields list
MaxTyped == 2       \* most entries of field_types
MaxMappings == 2    \* most entries of mappings

-----------------------------------------------------------------------------
(* Python values *)

None == <<>>

PyStr == [type |-> "str"]
PyInt == [type |-> "int"]
PyFloat == [type |-> "float"]
PyBool == [type |-> "bool"]
PyNone == [type |-> "NoneType"]
PyList(elems) == [type |-> "list", elems |-> elems]
PyDict(items) == [type |-> "dict", items |-> items]

\* the classes a value of the given type is an instance of: bool is a
\* subclass of int
Mro(t) == IF t = "bool" THEN {"bool", "int"} ELSE {t}

isinstance(v, classes) == Mro(v.type) \cap classes # {}

\* a schema type as json.load returns it: a str or a dict
TypeTag(s) == [py |-> "str", s |-> s]
TypeDict(d) == [py |-> "dict", d |-> d]

\* dict.get(key, default) on a dict held as a record
get(d, key, default) == IF key \in DOMAIN d THEN d[key] ELSE default

\* a plausible slip: any() in place of all()
AllDicts_any(elems) == \E k \in 1..Len(elems) : isinstance(elems[k], {"dict"})

\* every element of the list is a dict
AllDicts(elems) == \A k \in 1..Len(elems) : isinstance(elems[k], {"dict"})

-----------------------------------------------------------------------------
(* validate_field_type *)

\* a plausible slip: isinstance(value, float) in place of (int, float)
validate_primitive_floatonly(v, tag) ==
    IF tag = "string" THEN
        IF ~isinstance(v, {"str"}) THEN <<"expected string, got ", v.type>> ELSE None
    ELSE IF tag = "number" THEN
        IF ~isinstance(v, {"float"}) THEN <<"expected number, got ", v.type>> ELSE None
    ELSE IF tag = "boolean" THEN
        IF ~isinstance(v, {"bool"}) THEN <<"expected boolean, got ", v.type>> ELSE None
    ELSE IF tag = "array" THEN
        IF ~isinstance(v, {"list"}) THEN <<"expected array, got ", v.type>> ELSE None
    ELSE IF tag = "object" THEN
        IF ~isinstance(v, {"dict"}) THEN <<"expected object, got ", v.type>> ELSE None
    ELSE IF tag = "array_of_object" THEN
        IF ~isinstance(v, {"list"}) THEN <<"expected array of objects, got ", v.type>>
        ELSE IF ~AllDicts(v.elems)
             THEN <<"expected array of objects, but one or more elements are not objects">>
             ELSE None
    ELSE <<"unsupported data type '", tag, "' in config">>

\* the primitive branch: expected_type is one of the tags, or an unknown one
validate_primitive(v, tag) ==
    IF tag = "string" THEN
        IF ~isinstance(v, {"str"}) THEN <<"expected string, got ", v.type>> ELSE None
    ELSE IF tag = "number" THEN
        IF ~isinstance(v, {"int", "float"}) THEN <<"expected number, got ", v.type>> ELSE None
    ELSE IF tag = "boolean" THEN
        IF ~isinstance(v, {"bool"}) THEN <<"expected boolean, got ", v.type>> ELSE None
    ELSE IF tag = "array" THEN
        IF ~isinstance(v, {"list"}) THEN <<"expected array, got ", v.type>> ELSE None
    ELSE IF tag = "object" THEN
        IF ~isinstance(v, {"dict"}) THEN <<"expected object, got ", v.type>> ELSE None
    ELSE IF tag = "array_of_object" THEN
        IF ~isinstance(v, {"list"}) THEN <<"expected array of objects, got ", v.type>>
        ELSE IF ~AllDicts(v.elems)
             THEN <<"expected array of objects, but one or more elements are not objects">>
             ELSE None
    ELSE <<"unsupported data type '", tag, "' in config">>

RECURSIVE validate_field_type(_, _, _)
RECURSIVE validate_nested(_, _, _, _)

\* a plausible slip: a nested field absent from the value is skipped
validate_nested_skip(fname, v, nested_schema, k) ==
    IF k > Len(nested_schema) THEN None
    ELSE LET nested_field == nested_schema[k][1]
             nested_type == nested_schema[k][2]
         IN  IF nested_field \notin DOMAIN v.items
             THEN validate_nested(fname, v, nested_schema, k + 1)
             ELSE LET error == validate_field_type(fname \o <<".", nested_field>>,
                                                   v.items[nested_field], nested_type)
                  IN  IF error # None THEN error
                      ELSE validate_nested(fname, v, nested_schema, k + 1)

\* the loop over nested_schema.items(), from its k-th entry on
validate_nested(fname, v, nested_schema, k) ==
    IF k > Len(nested_schema) THEN None
    ELSE LET nested_field == nested_schema[k][1]
             nested_type == nested_schema[k][2]
         IN  IF nested_field \notin DOMAIN v.items
             THEN <<"missing nested field '", nested_field, "' in '">> \o fname \o <<"'">>
             ELSE LET error == validate_field_type(fname \o <<".", nested_field>>,
                                                   v.items[nested_field], nested_type)
                  IN  IF error # None THEN error
                      ELSE validate_nested(fname, v, nested_schema, k + 1)

validate_field_type(fname, v, etype) ==
    IF etype.py = "dict" THEN
        IF "type" \in DOMAIN etype.d /\ etype.d.type = "object" THEN
            IF ~isinstance(v, {"dict"})
            THEN <<"expected object for '">> \o fname \o <<"', got ", v.type>>
            ELSE validate_nested(fname, v, get(etype.d, "schema", <<>>), 1)
        ELSE <<"unsupported nested type structure in '">> \o fname \o <<"'">>
    ELSE validate_primitive(v, etype.s)

-----------------------------------------------------------------------------
(* The values and schema types validate_field_type is applied to *)

Seqs(S, n) == UNION {[1..k -> S] : k \in 0..n}

\* functions from every subset of the keys to the values
DictsOver(keys, vals) == UNION {[D -> vals] : D \in SUBSET keys}

Scalars == {PyStr, PyInt, PyFloat, PyBool, PyNone}
ListElems == {PyDict(<<>>), PyInt}
Lists == {PyList(s) : s \in Seqs(ListElems, MaxListLen)}
NestedScalars == {PyStr, PyInt, PyBool}
NestedNames == {"city", "zip"}

\* dict values of nesting depth at most d: flat ones over NestedNames, and
\* ones that hold a deeper dict under "geo", alone or next to "zip"
RECURSIVE DictValues(_)
DictValues(d) ==
    IF d = 0 THEN {}
    ELSE {PyDict(f) : f \in DictsOver(NestedNames, NestedScalars)}
         \cup {PyDict([geo |-> g]) : g \in DictValues(d - 1)}
         \cup {PyDict([geo |-> g, zip |-> z]) :
                   g \in DictValues(d - 1), z \in {PyInt, PyBool}}

Values == Scalars \cup Lists \cup DictValues(MaxDepth)

PrimitiveTags == {"string", "number", "boolean", "array", "object",
                  "array_of_object", "date"}
NestedTags == {"string", "number"}

\* the orderings of a flat schema over NestedNames
FlatSchemas ==
    {<<>>}
    \cup {<<<<n, TypeTag(t)>>>> : n \in NestedNames, t \in NestedTags}
    \cup {<<<<p[1], TypeTag(t)>>, <<p[2], TypeTag(u)>>>> :
              p \in {q \in NestedNames \X NestedNames : q[1] # q[2]},
              t \in NestedTags, u \in NestedTags}

RECURSIVE DictTypes(_)
DictTypes(d) ==
    IF d = 0 THEN {}
    ELSE {TypeDict([type |-> "object", schema |-> s]) : s \in FlatSchemas}
         \cup {TypeDict([type |-> "object"]), TypeDict([type |-> "record", schema |-> <<>>]),
               TypeDict([schema |-> <<>>])}
         \cup {TypeDict([type |-> "object", schema |-> <<<<"geo", g>>>>]) :
                   g \in DictTypes(d - 1)}
         \cup {TypeDict([type |-> "object", schema |-> <<<<"geo", g>>, <<"zip", TypeTag("number")>>>>]) :
                   g \in DictTypes(d - 1)}
         \cup {TypeDict([type |-> "object", schema |-> <<<<"zip", TypeTag("number")>>, <<"geo", g>>>>]) :
                   g \in DictTypes(d - 1)}

\* the paths validate_field_type is called with: a top-level field, and a
\* field already one level down
FieldPaths == {<<"address">>, <<"user", ".", "address">>}

SchemaTypes == {TypeTag(t) : t \in PrimitiveTags} \cup DictTypes(MaxDepth)

-----------------------------------------------------------------------------
(* validate_field_type called on its own *)

IdleIngest ==
    /\ configDir = <<>>
    /\ pc = "idle"
    /\ consumer_id = ""
    /\ metadata = <<>>
    /\ submitted = <<>>
    /\ config = <<>>
    /\ missing = <<>>
    /\ idx = 0
    /\ checked = <<>>
    /\ error_msg = None
    /\ normalized = <<>>
    /\ response = [status_code |-> 0]
    /\ steps = <<>>
    /\ first = [set |-> FALSE]
    /\ requests = 0

NoCall ==
    /\ field_name = <<>>
    /\ value = PyNone
    /\ expected_type = TypeTag("")
    /\ result = <<"not called">>

InitField ==
    /\ IdleIngest
    /\ field_name \in FieldPaths
    /\ value \in Values
    /\ expected_type \in SchemaTypes
    /\ result = <<"not called">>

CallValidateFieldType ==
    /\ result = <<"not called">>
    /\ field_name # <<>>
    /\ result' = validate_field_type(field_name, value, expected_type)
    /\ UNCHANGED <<field_name, value, expected_type>>
    /\ UNCHANGED ingestVars

NextField == CallValidateFieldType

SpecField == InitField /\ [][NextField]_vars

-----------------------------------------------------------------------------
(* validate_metadata and normalize_metadata *)

\* repr() of a list of str: "['a', 'b']"
RECURSIVE ReprItems(_)
ReprItems(list) ==
    IF list = <<>> THEN <<>>
    ELSE IF Len(list) = 1 THEN <<"'", list[1], "'">>
    ELSE <<"'", list[1], "'", ", ">> \o ReprItems(Tail(list))

Repr(list) == <<"[">> \o ReprItems(list) \o <<"]">>

HTTPException(status_code, detail) == [status_code |-> status_code, detail |-> detail]

NoResponse == [status_code |-> 0]

\* a plausible slip: only the first missing field is kept
missing_fields_first(md, required_fields) ==
    LET all == SelectSeq(required_fields, LAMBDA f : f \notin DOMAIN md)
    IN  IF all = <<>> THEN <<>> ELSE <<all[1]>>

\* [f for f in required_fields if f not in metadata]
missing_fields(md, required_fields) ==
    SelectSeq(required_fields, LAMBDA f : f \notin DOMAIN md)

\* a plausible slip: an internal key that is already set is not overwritten
RECURSIVE normalize_from_keepfirst(_, _, _, _)
normalize_from_keepfirst(md, mappings, k, acc) ==
    IF k > Len(mappings) THEN acc
    ELSE LET consumer_key == mappings[k][1]
             internal_key == mappings[k][2]
         IN  IF consumer_key \in DOMAIN md
             THEN normalize_from_keepfirst(md, mappings, k + 1,
                                           acc @@ (internal_key :> md[consumer_key]))
             ELSE normalize_from_keepfirst(md, mappings, k + 1, acc)

\* the loop over mappings.items(), from its k-th entry on, with the
\* entries set so far
RECURSIVE normalize_from(_, _, _, _)
normalize_from(md, mappings, k, acc) ==
    IF k > Len(mappings) THEN acc
    ELSE LET consumer_key == mappings[k][1]
             internal_key == mappings[k][2]
         IN  IF consumer_key \in DOMAIN md
             THEN normalize_from(md, mappings, k + 1,
                                 (internal_key :> md[consumer_key]) @@ acc)
             ELSE normalize_from(md, mappings, k + 1, acc)

normalize_metadata(md, mappings) == normalize_from(md, mappings, 1, <<>>)

-----------------------------------------------------------------------------
(* The /ingest handler *)

NoFirst == [set |-> FALSE]

\* the call ends with the given response, returned or raised
Finish(resp) ==
    /\ response' = resp
    /\ pc' = "done"
    /\ first' = IF first.set THEN first
                ELSE [set |-> TRUE, consumer_id |-> consumer_id,
                      metadata |-> metadata, response |-> resp]

\* a request arrives: request.consumer_id and request.metadata are bound.
\* The locals of the call (config, missing, error_msg, normalized and the
\* loop position) are each assigned before they are read, so what the
\* previous call left in them stays until then.
Request(cid, md) ==
    /\ pc \in {"idle", "done"}
    /\ requests < MaxRequests
    /\ requests' = requests + 1
    /\ consumer_id' = cid
    /\ metadata' = md
    /\ submitted' = [consumer_id |-> cid, metadata |-> md, files |-> configDir]
    /\ pc' = "load"
    /\ checked' = <<>>
    /\ response' = NoResponse
    /\ steps' = <<>>
    /\ UNCHANGED <<configDir, first, config, missing, idx, error_msg, normalized>>
    /\ UNCHANGED callVars

\* a plausible slip: a missing file yields an empty configuration
LoadConfig_default ==
    /\ pc = "load"
    /\ steps' = Append(steps, "load")
    /\ IF consumer_id \notin DOMAIN configDir
       THEN /\ config' = <<>>
            /\ pc' = "validate"
            /\ UNCHANGED <<response, first>>
       ELSE IF ~configDir[consumer_id].valid
       THEN /\ Finish(HTTPException(500, <<"Unexpected error: ", "JSONDecodeError">>))
            /\ UNCHANGED config
       ELSE /\ config' = configDir[consumer_id].data
            /\ pc' = "validate"
            /\ UNCHANGED <<response, first>>
    /\ UNCHANGED <<configDir, consumer_id, metadata, submitted, missing, idx,
                   checked, error_msg, normalized, requests>>
    /\ UNCHANGED callVars

\* load_consumer_config: 404 when the file does not exist; a file that is
\* not JSON makes json.load raise, which the handler turns into a 500
LoadConfig ==
    /\ pc = "load"
    /\ steps' = Append(steps, "load")
    /\ IF consumer_id \notin DOMAIN configDir
       THEN /\ Finish(HTTPException(404, <<"No config found for consumer: ", consumer_id>>))
            /\ UNCHANGED config
       ELSE IF ~configDir[consumer_id].valid
       THEN /\ Finish(HTTPException(500, <<"Unexpected error: ", "JSONDecodeError">>))
            /\ UNCHANGED config
       ELSE /\ config' = configDir[consumer_id].data
            /\ pc' = "validate"
            /\ UNCHANGED <<response, first>>
    /\ UNCHANGED <<configDir, consumer_id, metadata, submitted, missing, idx,
                   checked, error_msg, normalized, requests>>
    /\ UNCHANGED callVars

\* validate_metadata, step 1: the missing required fields
CheckRequired ==
    /\ pc = "validate"
    /\ steps' = Append(steps, "validate")
    /\ LET m == missing_fields(metadata, get(config, "required_fields", <<>>))
       IN  /\ missing' = m
           /\ IF m # <<>>
              THEN /\ Finish(HTTPException(400, <<"Missing required fields: ">> \o Repr(m)))
                   /\ UNCHANGED idx
              ELSE /\ pc' = "types"
                   /\ idx' = 1
                   /\ UNCHANGED <<response, first>>
    /\ UNCHANGED <<configDir, consumer_id, metadata, submitted, config, checked,
                   error_msg, normalized, requests>>
    /\ UNCHANGED callVars

\* a plausible slip: no test that the field is in metadata, so metadata[field]
\* raises KeyError, which the handler turns into a 500
CheckFieldType_nopresence ==
    /\ pc = "types"
    /\ idx <= Len(get(config, "field_types", <<>>))
    /\ LET field == get(config, "field_types", <<>>)[idx][1]
           etype == get(config, "field_types", <<>>)[idx][2]
       IN  IF field \in DOMAIN metadata
           THEN LET e == validate_field_type(<<field>>, metadata[field], etype)
                IN  /\ error_msg' = e
                    /\ checked' = Append(checked, field)
                    /\ IF e # None
                       THEN /\ Finish(HTTPException(400,
                                   <<"Incorrect data type for field '", field, "': ">> \o e))
                            /\ UNCHANGED idx
                       ELSE /\ idx' = idx + 1
                            /\ UNCHANGED <<pc, response, first>>
           ELSE /\ Finish(HTTPException(500, <<"Unexpected error: ", "'", field, "'">>))
                /\ UNCHANGED <<idx, error_msg, checked>>
    /\ UNCHANGED <<configDir, consumer_id, metadata, submitted, config, missing,
                   normalized, steps, requests>>
    /\ UNCHANGED callVars

\* validate_metadata, step 2: one pass of the loop over field_types.items()
CheckFieldType ==
    /\ pc = "types"
    /\ idx <= Len(get(config, "field_types", <<>>))
    /\ LET field == get(config, "field_types", <<>>)[idx][1]
           etype == get(config, "field_types", <<>>)[idx][2]
       IN  IF field \in DOMAIN metadata
           THEN LET e == validate_field_type(<<field>>, metadata[field], etype)
                IN  /\ error_msg' = e
                    /\ checked' = Append(checked, field)
                    /\ IF e # None
                       THEN /\ Finish(HTTPException(400,
                                   <<"Incorrect data type for field '", field, "': ">> \o e))
                            /\ UNCHANGED idx
                       ELSE /\ idx' = idx + 1
                            /\ UNCHANGED <<pc, response, first>>
           ELSE /\ idx' = idx + 1
                /\ UNCHANGED <<pc, response, first, error_msg, checked>>
    /\ UNCHANGED <<configDir, consumer_id, metadata, submitted, config, missing,
                   normalized, steps, requests>>
    /\ UNCHANGED callVars

\* validate_metadata returns: the loop is exhausted
ValidateReturn ==
    /\ pc = "types"
    /\ idx > Len(get(config, "field_types", <<>>))
    /\ pc' = "normalize"
    /\ UNCHANGED <<configDir, consumer_id, metadata, submitted, config, missing, idx,
                   checked, error_msg, normalized, response, steps, first, requests>>
    /\ UNCHANGED callVars

\* a plausible slip: normalized is a module-level dict that is never cleared
Normalize_accumulate ==
    /\ pc = "normalize"
    /\ steps' = Append(steps, "normalize")
    /\ normalized' = normalize_from(metadata, get(config, "mappings", <<>>), 1, normalized)
    /\ pc' = "respond"
    /\ UNCHANGED <<configDir, consumer_id, metadata, submitted, config, missing, idx,
                   checked, error_msg, response, first, requests>>
    /\ UNCHANGED callVars

\* normalized = normalize_metadata(metadata, config.get("mappings", {}))
Normalize ==
    /\ pc = "normalize"
    /\ steps' = Append(steps, "normalize")
    /\ normalized' = normalize_metadata(metadata, get(config, "mappings", <<>>))
    /\ pc' = "respond"
    /\ UNCHANGED <<configDir, consumer_id, metadata, submitted, config, missing, idx,
                   checked, error_msg, response, first, requests>>
    /\ UNCHANGED callVars

\* the handler returns the message and the normalized payload
Respond ==
    /\ pc = "respond"
    /\ steps' = Append(steps, "respond")
    /\ Finish([status_code |-> 200,
               message |-> <<"Data from ", consumer_id, " processed successfully">>,
               normalized_payload |-> normalized])
    /\ UNCHANGED <<configDir, consumer_id, metadata, submitted, config, missing, idx,
                   checked, error_msg, normalized, requests>>
    /\ UNCHANGED callVars

-----------------------------------------------------------------------------
(* The requests and configurations the handler is run on *)

TopNames == {"name", "age", "address"}
InternalNames == {"id", "label"}

AddrNode == TypeDict([type |-> "object", schema |-> <<<<"city", TypeTag("string")>>>>])

TopValues == {PyStr, PyInt, PyDict([city |-> PyStr]), PyDict([city |-> PyInt])}
TopTypes == {TypeTag("string"), TypeTag("number"), AddrNode}

Metadatas == DictsOver(TopNames, TopValues)

\* the items of a dict: no key twice
DistinctKeys(items) ==
    \A i \in DOMAIN items : \A j \in DOMAIN items : i # j => items[i][1] # items[j][1]

RequiredLists == Seqs(TopNames, MaxRequired)
FieldTypeDicts == {ft \in Seqs(TopNames \X TopTypes, MaxTyped) : DistinctKeys(ft)}
MappingDicts == {mp \in Seqs(TopNames \X InternalNames, MaxMappings) : DistinctKeys(mp)}

ValidFile(data) == [valid |-> TRUE, data |-> data]
InvalidFile == [valid |-> FALSE]

\* a call that has loaded the given configuration for the given metadata
Loaded(data, md) ==
    /\ configDir = ("acme" :> ValidFile(data))
    /\ consumer_id = "acme"
    /\ metadata = md
    /\ submitted = [consumer_id |-> "acme", metadata |-> md, files |-> configDir]
    /\ config = data
    /\ checked = <<>>
    /\ error_msg = None
    /\ normalized = <<>>
    /\ response = NoResponse
    /\ first = NoFirst
    /\ requests = 1

\* validate_metadata over every metadata, required_fields and field_types
InitMeta ==
    /\ NoCall
    /\ \E rf \in RequiredLists, ft \in FieldTypeDicts, md \in Metadatas :
           Loaded([required_fields |-> rf, field_types |-> ft], md)
    /\ pc = "validate"
    /\ missing = <<>>
    /\ idx = 0
    /\ steps = <<"load">>

NextMeta == CheckRequired \/ CheckFieldType \/ ValidateReturn

SpecMeta == InitMeta /\ [][NextMeta]_vars

\* normalize_metadata over every metadata and mappings
InitNorm ==
    /\ NoCall
    /\ \E mp \in MappingDicts, md \in Metadatas : Loaded([mappings |-> mp], md)
    /\ pc = "normalize"
    /\ missing = <<>>
    /\ idx = 1
    /\ steps = <<"load", "validate">>

NextNorm == Normalize \/ Respond

SpecNorm == InitNorm /\ [][NextNorm]_vars

\* the whole handler, over a directory with one valid file, one file that is
\* not JSON, and no file for any other consumer
ConsumerIds == {"acme", "broken", "ghost"}

AcmeConfigs ==
    { [required_fields |-> <<"name">>,
       field_types |-> <<<<"name", TypeTag("string")>>, <<"address", AddrNode>>>>,
       mappings |-> <<<<"name", "id">>, <<"address", "label">>>>],
      [mappings |-> <<<<"name", "id">>, <<"address", "id">>>>],
      [required_fields |-> <<"address", "name">>,
       field_types |-> <<<<"name", TypeTag("number")>>>>] }

IngestMetadatas == DictsOver({"name", "address"}, {PyStr, PyInt, PyDict([city |-> PyInt])})

Init ==
    /\ NoCall
    /\ \E data \in AcmeConfigs :
           configDir = ("acme" :> ValidFile(data)) @@ ("broken" :> InvalidFile)
    /\ pc = "idle"
    /\ consumer_id = ""
    /\ metadata = <<>>
    /\ submitted = [consumer_id |-> "", metadata |-> <<>>, files |-> configDir]
    /\ config = <<>>
    /\ missing = <<>>
    /\ idx = 0
    /\ checked = <<>>
    /\ error_msg = None
    /\ normalized = <<>>
    /\ response = NoResponse
    /\ steps = <<>>
    /\ first = NoFirst
    /\ requests = 0

Next ==
    \/ \E cid \in ConsumerIds, md \in IngestMetadatas : Request(cid, md)
    \/ LoadConfig
    \/ CheckRequired
    \/ CheckFieldType
    \/ ValidateReturn
    \/ Normalize
    \/ Respond

Spec == Init /\ [][Next]_vars

-----------------------------------------------------------------------------
(* Properties of validate_field_type *)

Called == result # <<"not called">>

IsObjectNode(t) == t.py = "dict" /\ "type" \in DOMAIN t.d /\ t.d.type = "object"

SchemaOf(t) == IF "schema" \in DOMAIN t.d THEN t.d.schema ELSE <<>>

\* somewhere in the value, at a place the schema describes, a bool stands
\* where the schema says "number"
RECURSIVE BoolAgainstNumber(_, _)
BoolAgainstNumber(v, t) ==
    IF t.py = "str" THEN t.s = "number" /\ v.type = "bool"
    ELSE /\ IsObjectNode(t)
         /\ v.type = "dict"
         /\ \E k \in 1..Len(SchemaOf(t)) :
                /\ SchemaOf(t)[k][1] \in DOMAIN v.items
                /\ BoolAgainstNumber(v.items[SchemaOf(t)[k][1]], SchemaOf(t)[k][2])

\* C1: validate_field_type with the tag "number" returns an error for every
\* boolean value, at top level and at any nesting depth; only int and float
\* values are accepted as numbers.
C1_BooleanIsNotANumber ==
    Called =>
        /\ BoolAgainstNumber(value, expected_type) => result # None
        /\ expected_type = TypeTag("number") =>
               (result = None <=> value.type \in {"int", "float"})

Min(S) == CHOOSE m \in S : \A n \in S : m <= n

\* C5: for an object node and a dict value the nested fields are visited in
\* schema order; the first one that is absent yields the missing-nested-field
\* error naming it and its parent path, the first one that is present and
\* rejected yields the error of its own validation under the path
\* field_name + "." + nested field; later fields are not examined; with no
\* failing nested field the result is success.
C5_FirstNestedError ==
    (Called /\ IsObjectNode(expected_type) /\ value.type = "dict") =>
        LET schema == SchemaOf(expected_type)
            Sub(k) == validate_field_type(field_name \o <<".", schema[k][1]>>,
                                          value.items[schema[k][1]], schema[k][2])
            Absent(k) == schema[k][1] \notin DOMAIN value.items
            failing == {k \in 1..Len(schema) : Absent(k) \/ Sub(k) # None}
        IN  IF failing = {} THEN result = None
            ELSE LET j == Min(failing)
                 IN  IF Absent(j)
                     THEN result = <<"missing nested field '", schema[j][1], "' in '">>
                                       \o field_name \o <<"'">>
                     ELSE result = Sub(j)

\* a nested error two levels down, found before a later failing sibling
C5_Witness ==
    /\ Called
    /\ field_name = <<"address">>
    /\ expected_type = TypeDict([type |-> "object", schema |->
            <<<<"geo", TypeDict([type |-> "object", schema |->
                          <<<<"city", TypeTag("string")>>, <<"zip", TypeTag("number")>>>>])>>,
              <<"zip", TypeTag("number")>>>>])
    /\ value = PyDict([geo |-> PyDict([city |-> PyStr]), zip |-> PyBool])
    /\ result = <<"missing nested field '", "zip", "' in '", "address", ".", "geo", "'">>

\* C10: with the tag "array_of_object" the result is success exactly when
\* the value is a list whose elements are all dicts (the empty list
\* included); the error for a list with a non-dict element is one fixed
\* message that names no element.
C10_ArrayOfObject ==
    (Called /\ expected_type = TypeTag("array_of_object")) =>
        /\ result = None <=>
               /\ value.type = "list"
               /\ ~ \E k \in DOMAIN value.elems : value.elems[k].type # "dict"
        /\ (value.type = "list" /\ result # None) =>
               result = <<"expected array of objects, but one or more elements are not objects">>

C10_Witness ==
    /\ Called
    /\ expected_type = TypeTag("array_of_object")
    /\ value = PyList(<<PyDict(<<>>), PyInt>>)
    /\ result # None

-----------------------------------------------------------------------------
(* Properties of validate_metadata *)

Ran(step) == \E k \in DOMAIN steps : steps[k] = step

RequiredOf(cfg) == IF "required_fields" \in DOMAIN cfg THEN cfg.required_fields ELSE <<>>
FieldTypesOf(cfg) == IF "field_types" \in DOMAIN cfg THEN cfg.field_types ELSE <<>>
MappingsOf(cfg) == IF "mappings" \in DOMAIN cfg THEN cfg.mappings ELSE <<>>

\* the elements of the list that are not keys of md, in the order of the list
RECURSIVE AbsentFrom(_, _)
AbsentFrom(list, md) ==
    IF list = <<>> THEN <<>>
    ELSE (IF Head(list) \in DOMAIN md THEN <<>> ELSE <<Head(list)>>)
             \o AbsentFrom(Tail(list), md)

SomeMissing == \E k \in DOMAIN RequiredOf(config) : RequiredOf(config)[k] \notin DOMAIN metadata

\* the k-th entry of field_types is present in metadata and rejected
Rejected(k) ==
    LET entry == FieldTypesOf(config)[k]
    IN  /\ entry[1] \in DOMAIN metadata
        /\ validate_field_type(<<entry[1]>>, metadata[entry[1]], entry[2]) # None

RejectedEntries == {k \in DOMAIN FieldTypesOf(config) : Rejected(k)}

\* the fields among the first n entries of ft that are keys of md, in order
RECURSIVE PresentUpTo(_, _, _)
PresentUpTo(ft, md, n) ==
    IF n = 0 THEN <<>>
    ELSE PresentUpTo(ft, md, n - 1)
             \o (IF ft[n][1] \in DOMAIN md THEN <<ft[n][1]>> ELSE <<>>)

\* C2: when a required field is not a key of metadata, validate_metadata
\* fails with the list of all absent required fields, in required_fields
\* order, and no field type is checked or reported for the request.
C2_MissingFieldsAll ==
    (Ran("validate") /\ SomeMissing) =>
        /\ pc = "done"
        /\ missing = AbsentFrom(RequiredOf(config), metadata)
        /\ response = HTTPException(400, <<"Missing required fields: ">>
                          \o Repr(AbsentFrom(RequiredOf(config), metadata)))
        /\ checked = <<>>

\* two different fields are missing while a present field has a wrong type
C2_Witness ==
    /\ Ran("validate")
    /\ pc = "done"
    /\ Len(missing) = 2
    /\ missing[1] # missing[2]
    /\ RejectedEntries # {}
    /\ response.status_code = 400

\* C3: with no required field missing, the entries of field_types are
\* visited in order, entries whose field is absent from metadata are
\* skipped, and the call fails with the first visited field that
\* validate_field_type rejects and that field's message; later fields are
\* not checked.
C3_FirstTypeError ==
    (Ran("validate") /\ ~SomeMissing) =>
        LET ft == FieldTypesOf(config)
        IN  /\ pc = "types" =>
                   /\ \A k \in RejectedEntries : idx <= k
                   /\ checked = PresentUpTo(ft, metadata, idx - 1)
                   /\ response = NoResponse
            /\ (pc = "done" /\ ~Ran("normalize")) =>
                   /\ RejectedEntries # {}
                   /\ LET j == Min(RejectedEntries)
                      IN  /\ response = HTTPException(400,
                                 <<"Incorrect data type for field '", ft[j][1], "': ">>
                                 \o validate_field_type(<<ft[j][1]>>, metadata[ft[j][1]], ft[j][2]))
                          /\ checked = PresentUpTo(ft, metadata, j)
            /\ (pc = "normalize" \/ Ran("normalize")) =>
                   /\ RejectedEntries = {}
                   /\ checked = PresentUpTo(ft, metadata, Len(ft))

\* the first entry is absent from metadata and skipped, the second is
\* rejected
C3_Witness ==
    /\ Ran("validate")
    /\ pc = "done"
    /\ Len(FieldTypesOf(config)) = 2
    /\ FieldTypesOf(config)[1][1] \notin DOMAIN metadata
    /\ checked = <<FieldTypesOf(config)[2][1]>>
    /\ response.status_code = 400

\* the value has the shape the schema type describes
RECURSIVE Matches(_, _)
Matches(v, t) ==
    IF t.py = "str"
    THEN CASE t.s = "string" -> v.type = "str"
           [] t.s = "number" -> v.type \in {"int", "float"}
           [] t.s = "boolean" -> v.type = "bool"
           [] t.s = "array" -> v.type = "list"
           [] t.s = "object" -> v.type = "dict"
           [] t.s = "array_of_object" ->
                  v.type = "list" /\ \A k \in DOMAIN v.elems : v.elems[k].type = "dict"
           [] OTHER -> FALSE
    ELSE /\ IsObjectNode(t)
         /\ v.type = "dict"
         /\ \A k \in DOMAIN SchemaOf(t) :
                /\ SchemaOf(t)[k][1] \in DOMAIN v.items
                /\ Matches(v.items[SchemaOf(t)[k][1]], SchemaOf(t)[k][2])

AllTypedMatch ==
    \A k \in DOMAIN FieldTypesOf(config) :
        LET entry == FieldTypesOf(config)[k]
        IN  entry[1] \in DOMAIN metadata => Matches(metadata[entry[1]], entry[2])

\* C4: when every required field is a key of metadata and every field of
\* field_types present in metadata matches its schema type, validate_metadata
\* raises nothing, whatever other fields metadata holds.
C4_ValidSucceeds ==
    (Ran("validate") /\ ~SomeMissing /\ AllTypedMatch) =>
        /\ response = NoResponse
        /\ pc \in {"types", "normalize"}

\* validation has returned for a metadata with a matching nested object and
\* a field that is neither required nor typed
C4_Witness ==
    /\ Ran("validate")
    /\ pc = "normalize"
    /\ AllTypedMatch
    /\ RequiredOf(config) # <<>>
    /\ \E k \in DOMAIN FieldTypesOf(config) :
           /\ FieldTypesOf(config)[k] = <<"address", AddrNode>>
           /\ "address" \in DOMAIN metadata
    /\ \E f \in DOMAIN metadata :
           /\ \A k \in DOMAIN RequiredOf(config) : RequiredOf(config)[k] # f
           /\ \A k \in DOMAIN FieldTypesOf(config) : FieldTypesOf(config)[k][1] # f

Contains(seq, sub) ==
    \E i \in 0..(Len(seq) - Len(sub)) : SubSeq(seq, i + 1, i + Len(sub)) = sub

SupportedTags == {"string", "number", "boolean", "array", "object", "array_of_object"}

\* where the first failure of v against t sits, and what it is: a value of
\* the wrong kind, a missing nested field, or a schema the code cannot read
RECURSIVE FailAt(_, _, _)
FailAt(fname, v, t) ==
    IF t.py = "str"
    THEN [path |-> fname, got |-> v.type,
          kind |-> IF t.s \in SupportedTags THEN "mismatch" ELSE "config"]
    ELSE IF ~IsObjectNode(t) THEN [path |-> fname, got |-> v.type, kind |-> "config"]
    ELSE IF v.type # "dict" THEN [path |-> fname, got |-> v.type, kind |-> "mismatch"]
    ELSE LET schema == SchemaOf(t)
             Absent(k) == schema[k][1] \notin DOMAIN v.items
             Sub(k) == validate_field_type(fname \o <<".", schema[k][1]>>,
                                           v.items[schema[k][1]], schema[k][2])
             j == Min({k \in DOMAIN schema : Absent(k) \/ Sub(k) # None})
         IN  IF Absent(j)
             THEN [path |-> fname \o <<".", schema[j][1]>>, got |-> "", kind |-> "missing"]
             ELSE FailAt(fname \o <<".", schema[j][1]>>, v.items[schema[j][1]], schema[j][2])

\* C6: the error validate_metadata surfaces for a type mismatch carries the
\* full dotted path of the mismatching field and the actual kind, also when
\* the field is nested.
C6_PathQualified ==
    (Ran("validate") /\ pc = "done" /\ response.status_code = 400 /\ checked # <<>>) =>
        LET field == checked[Len(checked)]
            ft == FieldTypesOf(config)
            k == CHOOSE k \in DOMAIN ft : ft[k][1] = field
            fail == FailAt(<<field>>, metadata[field], ft[k][2])
        IN  fail.kind = "mismatch" =>
                /\ Contains(response.detail, fail.path)
                /\ Contains(response.detail, <<fail.got>>)

-----------------------------------------------------------------------------
(* Properties of normalize_metadata *)

Max(S) == CHOOSE m \in S : \A n \in S : m >= n

\* C7: normalize_metadata never fails; its result has exactly the internal
\* keys of the mappings whose consumer key is a key of metadata, each with
\* the value of the last such consumer key in mapping order; metadata and
\* mappings are left as they were.
C7_Normalized ==
    /\ pc = "normalize" => ENABLED Normalize
    /\ Ran("normalize") =>
        LET mp == MappingsOf(config)
            Hits == {k \in DOMAIN mp : mp[k][1] \in DOMAIN metadata}
        IN  /\ DOMAIN normalized = {mp[k][2] : k \in Hits}
            /\ \A key \in DOMAIN normalized :
                   normalized[key] = metadata[mp[Max({k \in Hits : mp[k][2] = key})][1]]
            /\ metadata = submitted.metadata
            /\ configDir = submitted.files
            /\ config = configDir[consumer_id].data
            /\ response.status_code \in {0, 200}

\* two consumer keys with different values map to one internal key, and a
\* third key of metadata is not mapped
C7_Witness ==
    /\ Ran("normalize")
    /\ Len(MappingsOf(config)) = 2
    /\ MappingsOf(config)[1][2] = MappingsOf(config)[2][2]
    /\ MappingsOf(config)[1][1] \in DOMAIN metadata
    /\ MappingsOf(config)[2][1] \in DOMAIN metadata
    /\ metadata[MappingsOf(config)[1][1]] # metadata[MappingsOf(config)[2][1]]
    /\ Cardinality(DOMAIN metadata) = 3
    /\ Cardinality(DOMAIN normalized) = 1

-----------------------------------------------------------------------------
(* Properties of the handler *)

StepOrder == <<"load", "validate", "normalize", "respond">>

\* C8: a request runs lookup, validation, normalization in that order and
\* ends in exactly one outcome: a payload only after a found configuration
\* and a successful validation; not-found for an unknown consumer, before
\* any validation or normalization; one validation error, and no
\* normalization, after a validation failure.
C8_OrderAndOutcome ==
    /\ steps = SubSeq(StepOrder, 1, Len(steps))
    /\ pc # "done" => response = NoResponse
    /\ pc = "done" =>
        /\ response.status_code \in {200, 400, 404, 500}
        /\ response.status_code = 200 =>
               /\ steps = StepOrder
               /\ consumer_id \in DOMAIN configDir
               /\ configDir[consumer_id].valid
               /\ config = configDir[consumer_id].data
               /\ ~SomeMissing
               /\ RejectedEntries = {}
               /\ response.normalized_payload = normalized
        /\ consumer_id \notin DOMAIN configDir =>
               /\ response = HTTPException(404, <<"No config found for consumer: ", consumer_id>>)
               /\ steps = <<"load">>
        /\ (Ran("validate") /\ (SomeMissing \/ RejectedEntries # {})) =>
               /\ response.status_code = 400
               /\ response.detail[1] \in {"Missing required fields: ",
                                          "Incorrect data type for field '"}
               /\ steps = <<"load", "validate">>

\* a validation failure after an earlier request for an unknown consumer
C8_Witness ==
    /\ pc = "done"
    /\ requests = 2
    /\ first.set
    /\ first.response.status_code = 404
    /\ response.status_code = 400
    /\ steps = <<"load", "validate">>

\* C9: whatever requests came before, the same metadata under the same
\* configuration gets the response the first such request got, and no run
\* changes the metadata or the configuration.
C9_NoHiddenState ==
    /\ pc # "idle" =>
           /\ metadata = submitted.metadata
           /\ configDir = submitted.files
    /\ (pc = "done" /\ first.set /\ first.consumer_id = consumer_id
            /\ first.metadata = metadata) =>
           response = first.response

\* the third request repeats the first and is answered with a payload that
\* drops or merges some field of metadata
C9_Witness ==
    /\ pc = "done"
    /\ requests = 3
    /\ first.set
    /\ first.consumer_id = consumer_id
    /\ first.metadata = metadata
    /\ response.status_code = 200
    /\ DOMAIN response.normalized_payload # {}
    /\ DOMAIN normalized # DOMAIN metadata

====
